---- MODULE Spec2Model ----
(***************************************************************************)
(* A model of src/Console.py, the triangular-arbitrage bot: the scheduler  *)
(* loop (main_loop), the per-triangle evaluation tasks it fans out with    *)
(* asyncio.gather (check_triangle), the risk guard (can_execute_trade,     *)
(* check_trade_limits) and the executor (execute_real_trade).              *)
(*                                                                         *)
(* asyncio is cooperative: a coroutine runs without interruption from one  *)
(* await that really suspends to the next.  Every action below is one such *)
(* uninterrupted segment of a coroutine.                                   *)
(*                                                                         *)
(* Units.  time.time() and datetime.utcnow() are one clock, `now`, in      *)
(* whole seconds since the bot started.  Amounts (notional, balances) are  *)
(* integers in 1/10000 USDT, prices are integers in 1/100 and order-book   *)
(* volumes in 1/100, so that price * volume is an amount.  Quotients are   *)
(* exact rationals <<numerator, denominator>> in lowest terms; the code's  *)
(* binary floating point is not modelled.                                  *)
(***************************************************************************)
EXTENDS Integers, Sequences, FiniteSets, TLC

\* ------------------------------------------------------------ configuration

\* COMMISSION_RATE = 0.001, in thousandths.
COMMISSION_RATE == 1
\* MIN_PROFIT = 0.15 and MAX_PROFIT = 2.0 percent, in 1/100 percent.
MIN_PROFIT == 15
MAX_PROFIT == 200
\* TARGET_VOLUME_USDT = float(os.getenv("TRADE_VOLUME", "10")): 10 USDT.
TARGET_VOLUME_USDT == 100000
START_COINS == <<"USDT", "BTC", "ETH">>
MAX_CONCURRENT_TRADES == 1
\* MIN_BALANCE_USDT = 15 USDT.
MIN_BALANCE_USDT == 150000
\* The three limits are read from the environment (defaults 5, 30, 100); the
\* deployment modelled here sets MAX_TRADES_PER_MINUTE=1, MAX_TRADES_PER_HOUR=2,
\* MAX_TRADES_PER_DAY=2, so that two routes are enough to fill each window.
MAX_TRADES_PER_MINUTE == 1
MAX_TRADES_PER_HOUR == 2
MAX_TRADES_PER_DAY == 2
\* TRADE_COOLDOWN = timedelta(minutes=5), in seconds.
TRADE_COOLDOWN == 300
BALANCE_REFRESH_INTERVAL == 3600
SYMBOL_REFRESH_INTERVAL == 86400

\* The number of iterations of main_loop's `while True` that are explored.
MaxTicks == 2

None == "None"
\* None where a price (a rational) or a timestamp is expected.
NoPrice == <<0, 0>>
NoTime == 0 - 1

\* ---------------------------------------------------------------- rationals

RECURSIVE GCD(_, _)
GCD(a, b) == IF b = 0 THEN a ELSE GCD(b, a % b)

\* The rational n/d (n >= 0, d > 0) in lowest terms.
Rat(n, d) == LET g == GCD(n, d) IN <<n \div g, d \div g>>

\* Natural numbers of any size, as little-endian sequences of base-10000
\* digits: the products of the profit formula do not fit in 32 bits.
BigBase == 100 * 100

RECURSIVE BigOf(_)
BigOf(n) == IF n < BigBase THEN <<n>> ELSE <<n % BigBase>> \o BigOf(n \div BigBase)

RECURSIVE BigAddC(_, _, _)
BigAddC(a, b, c) ==
    IF a = <<>> /\ b = <<>> THEN (IF c = 0 THEN <<>> ELSE <<c>>)
    ELSE LET x == IF a = <<>> THEN 0 ELSE Head(a)
             y == IF b = <<>> THEN 0 ELSE Head(b)
             s == x + y + c
         IN  <<s % BigBase>> \o BigAddC(IF a = <<>> THEN a ELSE Tail(a),
                                        IF b = <<>> THEN b ELSE Tail(b),
                                        s \div BigBase)

BigAdd(a, b) == BigAddC(a, b, 0)

\* a times one digit k < BigBase.
RECURSIVE BigMulDigit(_, _, _)
BigMulDigit(a, k, c) ==
    IF a = <<>> THEN (IF c = 0 THEN <<>> ELSE <<c>>)
    ELSE LET s == Head(a) * k + c
         IN  <<s % BigBase>> \o BigMulDigit(Tail(a), k, s \div BigBase)

RECURSIVE BigMul(_, _)
BigMul(a, b) ==
    IF b = <<>> THEN <<>>
    ELSE BigAdd(BigMulDigit(a, Head(b), 0), <<0>> \o BigMul(a, Tail(b)))

RECURSIVE BigTrim(_)
BigTrim(a) ==
    IF a # <<>> /\ a[Len(a)] = 0 THEN BigTrim(SubSeq(a, 1, Len(a) - 1)) ELSE a

RECURSIVE BigLessTrimmed(_, _)
BigLessTrimmed(a, b) ==
    IF Len(a) # Len(b) THEN Len(a) < Len(b)
    ELSE IF a = <<>> THEN FALSE
    ELSE IF a[Len(a)] # b[Len(b)] THEN a[Len(a)] < b[Len(b)]
    ELSE BigLessTrimmed(SubSeq(a, 1, Len(a) - 1), SubSeq(b, 1, Len(b) - 1))

BigLess(a, b) == BigLessTrimmed(BigTrim(a), BigTrim(b))
BigLeq(a, b) == ~BigLess(b, a)

\* The product of a sequence of naturals.
RECURSIVE BigProduct(_)
BigProduct(s) == IF s = <<>> THEN <<1>> ELSE BigMul(BigOf(Head(s)), BigProduct(Tail(s)))

\* ------------------------------------------------------ market graph builder

\* A symbol "BASE/QUOTE" is the pair <<BASE, QUOTE>>: sym.endswith('/' + c) is
\* sym[2] = c, sym.startswith(c + '/') is sym[1] = c, and sym.split('/') is sym.
InList(x, list) == \E k \in 1..Len(list) : list[k] = x

\* The inner loop taking a second symbol with mid1 on either side of it.
RECURSIVE find_triangles_sym2_EitherSide(_, _, _, _)
find_triangles_sym2_EitherSide(symbols, base, mid1, j) ==
    IF j > Len(symbols) THEN <<>>
    ELSE LET sym2 == symbols[j]
             mid2 == IF sym2[1] = mid1 THEN sym2[2] ELSE sym2[1]
             third == <<mid2, base>>
             rest == find_triangles_sym2_EitherSide(symbols, base, mid1, j + 1)
         IN  IF sym2[1] # mid1 /\ sym2[2] # mid1 THEN rest
             ELSE IF InList(third, symbols) THEN <<(<<base, mid1, mid2>>)>> \o rest
             ELSE rest

RECURSIVE find_triangles_sym2(_, _, _, _)
find_triangles_sym2(symbols, base, mid1, j) ==
    IF j > Len(symbols) THEN <<>>
    ELSE LET sym2 == symbols[j]
             mid2 == sym2[2]
             third == <<mid2, base>>
             rest == find_triangles_sym2(symbols, base, mid1, j + 1)
         IN  IF sym2[1] # mid1 THEN rest
             ELSE IF InList(third, symbols) THEN <<(<<base, mid1, mid2>>)>> \o rest
             ELSE rest

RECURSIVE find_triangles_sym1(_, _, _)
find_triangles_sym1(symbols, base, i) ==
    IF i > Len(symbols) THEN <<>>
    ELSE LET sym1 == symbols[i]
             rest == find_triangles_sym1(symbols, base, i + 1)
         IN  IF sym1[2] # base THEN rest
             ELSE find_triangles_sym2(symbols, base, sym1[1], 1) \o rest

RECURSIVE find_triangles_base(_, _)
find_triangles_base(symbols, b) ==
    IF b > Len(START_COINS) THEN <<>>
    ELSE find_triangles_sym1(symbols, START_COINS[b], 1)
             \o find_triangles_base(symbols, b + 1)

\* The builder adding its triangles to a list that holds them already.
find_triangles_Extended(symbols) ==
    find_triangles_base(symbols, 1) \o find_triangles_base(symbols, 1)

find_triangles(symbols) == find_triangles_base(symbols, 1)

\* ------------------------------------------------- execution price estimator

\* The loop of get_avg_price from level k on: total_base is the whole volume
\* consumed so far, the fractional last level is added where the loop breaks.
\* (get_avg_price_loop_WholeLevel is the loop that takes the last level whole.)
RECURSIVE get_avg_price_loop_WholeLevel(_, _, _, _, _, _)
get_avg_price_loop_WholeLevel(orderbook_side, target_usdt, k, total_base, total_usd, max_liquidity) ==
    IF k > Len(orderbook_side)
    THEN [total_base |-> Rat(total_base, 1), total_usd |-> total_usd,
          max_liquidity |-> max_liquidity]
    ELSE LET price == orderbook_side[k][1]
             volume == orderbook_side[k][2]
             usd == price * volume
         IN  IF total_usd + usd >= target_usdt
             THEN [total_base |-> Rat(total_base + volume, 1),
                   total_usd |-> total_usd + usd,
                   max_liquidity |-> max_liquidity + usd]
             ELSE get_avg_price_loop_WholeLevel(orderbook_side, target_usdt, k + 1,
                                                total_base + volume, total_usd + usd,
                                                max_liquidity + usd)

RECURSIVE get_avg_price_loop(_, _, _, _, _, _)
get_avg_price_loop(orderbook_side, target_usdt, k, total_base, total_usd, max_liquidity) ==
    IF k > Len(orderbook_side)
    THEN [total_base |-> Rat(total_base, 1), total_usd |-> total_usd,
          max_liquidity |-> max_liquidity]
    ELSE LET price == orderbook_side[k][1]
             volume == orderbook_side[k][2]
             usd == price * volume
         IN  IF total_usd + usd >= target_usdt
             THEN LET remain_usd == target_usdt - total_usd
                  IN  [total_base |-> Rat(total_base * price + remain_usd, price),
                       total_usd |-> total_usd + remain_usd,
                       max_liquidity |-> max_liquidity + usd]
             ELSE get_avg_price_loop(orderbook_side, target_usdt, k + 1,
                                     total_base + volume, total_usd + usd,
                                     max_liquidity + usd)

\* get_avg_price with the target itself as the threshold.
get_avg_price_FullFill(orderbook_side, target_usdt) ==
    LET r == get_avg_price_loop(orderbook_side, target_usdt, 1, 0, 0, 0)
    IN  IF r.total_usd < target_usdt
        THEN [raised |-> FALSE, price |-> NoPrice, vol |-> 0, liq |-> r.max_liquidity]
        ELSE [raised |-> FALSE,
              price |-> Rat(r.total_usd * r.total_base[2], r.total_base[1]),
              vol |-> r.total_usd, liq |-> r.max_liquidity]

\* get_avg_price with half the target as the threshold.
get_avg_price_HalfFill(orderbook_side, target_usdt) ==
    LET r == get_avg_price_loop(orderbook_side, target_usdt, 1, 0, 0, 0)
    IN  IF r.total_usd * 2 < target_usdt
        THEN [raised |-> FALSE, price |-> NoPrice, vol |-> 0, liq |-> r.max_liquidity]
        ELSE IF r.total_base[1] = 0
        THEN [raised |-> TRUE, price |-> NoPrice, vol |-> 0, liq |-> 0]
        ELSE [raised |-> FALSE,
              price |-> Rat(r.total_usd * r.total_base[2], r.total_base[1]),
              vol |-> r.total_usd, liq |-> r.max_liquidity]

\* get_avg_price returns (avg_price, total_usd, max_liquidity), avg_price None
\* when less than 90% of the target is filled; the division by a zero
\* total_base raises ZeroDivisionError.
get_avg_price(orderbook_side, target_usdt) ==
    LET r == get_avg_price_loop(orderbook_side, target_usdt, 1, 0, 0, 0)
    IN  IF r.total_usd * 10 < target_usdt * 9
        THEN [raised |-> FALSE, price |-> NoPrice, vol |-> 0, liq |-> r.max_liquidity]
        ELSE IF r.total_base[1] = 0
        THEN [raised |-> TRUE, price |-> NoPrice, vol |-> 0, liq |-> 0]
        ELSE [raised |-> FALSE,
              price |-> Rat(r.total_usd * r.total_base[2], r.total_base[1]),
              vol |-> r.total_usd, liq |-> r.max_liquidity]

\* No call of get_avg_price on its own is under way.
NoEstimate == [pc |-> "none"]

\* No call of refresh_symbols or refresh_balances is followed on its own.
NoRefresh == [pc |-> "none"]

\* get_execution_price: what the caller receives when fetch_order_book has
\* failed MAX_RETRIES times.
NoOrderBook == [raised |-> FALSE, price |-> NoPrice, vol |-> 0, liq |-> 0]

\* ------------------------------------------------------------------- inputs

\* What exchange.load_markets() may answer: the symbols (the keys of the dict,
\* in order) and limits.amount.min of each market.
Catalogs ==
    { [symbols |-> << <<"BTC", "USDT">>, <<"ETH", "USDT">>, <<"ETH", "BTC">>, <<"BTC", "ETH">> >>,
       min_amount |-> [s \in {<<"BTC", "USDT">>, <<"ETH", "USDT">>, <<"ETH", "BTC">>, <<"BTC", "ETH">>} |-> 1]],
      [symbols |-> << <<"ETH", "BTC">>, <<"ETH", "USDT">>, <<"USDT", "BTC">>, <<"USDT", "ETH">> >>,
       min_amount |-> [s \in {<<"ETH", "BTC">>, <<"ETH", "USDT">>, <<"USDT", "BTC">>, <<"USDT", "ETH">>} |->
                          IF s = <<"USDT", "BTC">> THEN 50000 ELSE 1]],
      [symbols |-> << <<"BTC", "USDT">>, <<"ETH", "BTC">>, <<"ETH", "USDT">> >>,
       min_amount |-> [s \in {<<"BTC", "USDT">>, <<"ETH", "BTC">>, <<"ETH", "USDT">>} |-> 1]] }

\* The catalogs of the builder's own specification: every list of at most
\* MaxSymbols distinct symbols over three assets (the keys of a dict are
\* distinct), in every order.
MaxSymbols == 4
BuilderAssets == {"USDT", "BTC", "ETH"}
BuilderSymbols == {<<a, b>> : a, b \in BuilderAssets} \ {<<a, a>> : a \in BuilderAssets}

RECURSIVE DistinctLists(_, _)
DistinctLists(S, n) ==
    IF n = 0 THEN {<<>>}
    ELSE LET shorter == DistinctLists(S, n - 1)
         IN  shorter \cup
             UNION {{Append(q, x) : x \in {y \in S : ~InList(y, q)}} :
                       q \in {r \in shorter : Len(r) = n - 1}}

BuilderCatalogs == DistinctLists(BuilderSymbols, MaxSymbols)

\* The arguments of the estimator's own specification: order-book sides of at
\* most MaxLevels levels <<price, volume>> with the prices strictly rising
\* (asks) or strictly falling (bids), as an exchange lists them, and the
\* targets 1..MaxTarget.
MaxLevels == 2
MaxTarget == 12
EstimatorLevels == {<<price, volume>> : price \in 1..3, volume \in 1..3}

RECURSIVE EstimatorSides(_)
EstimatorSides(n) ==
    IF n = 0 THEN {<<>>}
    ELSE LET shorter == EstimatorSides(n - 1)
             Monotone(q) ==
                 \/ \A k \in 1..(Len(q) - 1) : q[k][1] < q[k + 1][1]
                 \/ \A k \in 1..(Len(q) - 1) : q[k][1] > q[k + 1][1]
         IN  shorter \cup
             {q \in UNION {{Append(r, x) : x \in EstimatorLevels} :
                              r \in {r \in shorter : Len(r) = n - 1}} : Monotone(q)}

EstimatorBooks == EstimatorSides(MaxLevels)
EstimatorTargets == 1..MaxTarget

\* What exchange.fetch_balance()["total"] may answer, per asset (an asset that
\* is absent, or not above 0, reads as 0 through .get(asset, 0)).
Assets == {"USDT", "BTC"}
BalanceSheets ==
    { [a \in Assets |-> IF a = "USDT" THEN 200000 ELSE 0],
      [a \in Assets |-> IF a = "USDT" THEN 100000 ELSE 200000] }

\* Order-book sides <<price, volume>>, best level first, that
\* exchange.fetch_order_book may answer for the three legs.
AskBooks1 == { << <<100, 2000>> >>, << <<100, 500>> >> }
AskBooks2 == { << <<2000, 100>> >>, << <<2000, 10>> >> }
BidBooks3 == { << <<2009, 100>> >>, << <<2010, 100>> >>, << <<2047, 100>> >>, << <<2010, 10>> >> }

\* What create_order does: it returns the order, or it raises.
OrderOutcomes == {"ok", "raise"}

\* asyncio.sleep(10) at the end of an iteration returns after 10 s at the
\* earliest.  The longer delays stand for stretches of iterations in which no
\* triangle was worth a trade: one past the minute window and inside the
\* cooldown, one at the end of the cooldown, one past the cooldown and the hour.
TickSleeps == {10, 100, 300, 4000}

\* ------------------------------------------------------------------- state

VARIABLES
    now,                    \* time.time() and datetime.utcnow()
    symbols_cache, markets_cache, triangles_cache, last_symbol_refresh,
    current_balances, last_balance_refresh, balance_warning_sent,
    active_trades,          \* dict route_id -> start of the execution
    trade_history,          \* list of timestamps
    last_trade_time,        \* the global: a dict route_id -> datetime, or a datetime
    trade_limits_suspended,
    loop,                   \* main_loop: where it is, and its locals
    ticks,                  \* iterations of main_loop started so far
    tasks,                  \* the check_triangle coroutines of this iteration
    notices,                \* send_telegram_message tasks created by check_trade_limits
    finished,               \* history: route_id -> when its last execution returned
    estimate,               \* a call of get_avg_price on its own: arguments and result
    refreshed               \* the last calls of refresh_symbols and refresh_balances: arguments and outcome

cacheVars == <<symbols_cache, markets_cache, triangles_cache, last_symbol_refresh>>
balanceVars == <<current_balances, last_balance_refresh, balance_warning_sent>>
guardVars == <<active_trades, trade_history, last_trade_time, trade_limits_suspended,
               notices, finished>>
vars == <<now, cacheVars, balanceVars, guardVars, loop, ticks, tasks, estimate, refreshed>>

\* A dict with key k set to v, and without key k.
DictSet(d, k, v) == [x \in DOMAIN d \cup {k} |-> IF x = k THEN v ELSE d[x]]
DictPop(d, k) == [x \in DOMAIN d \ {k} |-> d[x]]
EmptyDict == [x \in {} |-> 0]

\* last_trade_time is bound to a dict by main() and rebound to a datetime by
\* check_triangle after a successful trade.
DictValue(d) == [type |-> "dict", items |-> d]
DatetimeValue(t) == [type |-> "datetime", value |-> t]

\* route_id = f"{base}->{mid1}->{mid2}->{base}"
route_id(tri) == <<tri[1], tri[2], tri[3], tri[1]>>

\* --------------------------------------------------------------- risk guard

\* len([t for t in trade_history if now - t < horizon])
WindowCount(horizon) ==
    Cardinality({k \in 1..Len(trade_history) : now - trade_history[k] < horizon})

\* The comparison with `>` in place of `>=`: a window takes one trade more.
LimitReached_Above(count, max) == count > max

\* len(recent) >= MAX_TRADES_PER_...
LimitReached(count, max) == count >= max

\* The first limit check_trade_limits finds exceeded, or None.
ExceededLimit ==
    IF LimitReached(WindowCount(60), MAX_TRADES_PER_MINUTE) THEN "minute"
    ELSE IF LimitReached(WindowCount(3600), MAX_TRADES_PER_HOUR) THEN "hour"
    ELSE IF LimitReached(WindowCount(86400), MAX_TRADES_PER_DAY) THEN "day"
    ELSE None

\* The rejecting branches without their test of the flag.
SuspendNoticeDue_Untested == TRUE

\* `if not trade_limits_suspended:` in the three rejecting branches.
SuspendNoticeDue == ~trade_limits_suspended

\* The resuming branch without its test of the flag.
ResumeDue_Untested == TRUE

\* `if trade_limits_suspended:` after the three checks.
ResumeDue == trade_limits_suspended

\* check_trade_limits(): what it returns, the value it leaves in
\* trade_limits_suspended, and the notification task it creates (or None).
check_trade_limits ==
    IF ExceededLimit # None
    THEN [allowed |-> FALSE,
          suspended |-> IF SuspendNoticeDue THEN TRUE ELSE trade_limits_suspended,
          notice |-> IF SuspendNoticeDue THEN "suspended" ELSE None]
    ELSE [allowed |-> TRUE,
          suspended |-> IF ResumeDue THEN FALSE ELSE trade_limits_suspended,
          notice |-> IF ResumeDue THEN "resumed" ELSE None]

\* len(active_trades) >= MAX_CONCURRENT_TRADES
TooManyActive == Cardinality(DOMAIN active_trades) >= MAX_CONCURRENT_TRADES

\* can_execute_trade without its cooldown test.
InCooldown_Untested(rid) == FALSE

\* last_time and (datetime.utcnow() - last_time) < TRADE_COOLDOWN, with
\* last_time = last_trade_time.get(route_id), on a dict.
InCooldown(rid) ==
    /\ rid \in DOMAIN last_trade_time.items
    /\ now - last_trade_time.items[rid] < TRADE_COOLDOWN

\* usdt_balance < TARGET_VOLUME_USDT * 1.1, usdt_balance = current_balances.get('USDT', 0)
BalanceTooLow(rid) == current_balances["USDT"] * 10 < TARGET_VOLUME_USDT * 11

\* can_execute_trade(route_id): ret is what it returns ("True", "False") or
\* "raise" (last_trade_time.get on a datetime is an AttributeError); reason is
\* ret, with the `return False` that was taken named; limits tells whether
\* check_trade_limits was called.
NoLimitCheck == [suspended |-> trade_limits_suspended, notice |-> None]
can_execute_trade(rid) ==
    IF TooManyActive
    THEN [ret |-> "False", reason |-> "active", limits |-> FALSE] @@ NoLimitCheck
    ELSE IF last_trade_time.type # "dict"
    THEN [ret |-> "raise", reason |-> "raise", limits |-> FALSE] @@ NoLimitCheck
    ELSE IF InCooldown(rid)
    THEN [ret |-> "False", reason |-> "cooldown", limits |-> FALSE] @@ NoLimitCheck
    ELSE LET lim == check_trade_limits
             eff == [suspended |-> lim.suspended, notice |-> lim.notice]
         IN  IF ~lim.allowed
             THEN [ret |-> "False", reason |-> "limits", limits |-> TRUE] @@ eff
             ELSE IF BalanceTooLow(rid)
             THEN [ret |-> "False", reason |-> "balance", limits |-> TRUE] @@ eff
             ELSE [ret |-> "True", reason |-> "True", limits |-> TRUE] @@ eff

\* asyncio.create_task(send_telegram_message(...)) of check_trade_limits.
Notified(notice) ==
    IF notice = "suspended" THEN [notices EXCEPT !.suspended = @ + 1]
    ELSE IF notice = "resumed" THEN [notices EXCEPT !.resumed = @ + 1]
    ELSE notices

\* ------------------------------------------------------ opportunity evaluator

\* step3 of check_triangle as the fraction num/den of two big naturals:
\* (1/price1)(1-fee) * (1/price2)(1-fee) * price3 * (1-fee), prices in 1/100.
step3(price1, price2, price3) ==
    LET keep == 1000 - COMMISSION_RATE
    IN  [num |-> BigProduct(<<100, price1[2], price2[2], price3[1], keep, keep, keep>>),
         den |-> BigProduct(<<price1[1], price2[1], price3[2], 1000, 1000, 1000>>)]

\* bound <= (s - 1) * 100 and (s - 1) * 100 <= bound, bound in 1/100 percent.
ProfitAtLeast(s, bound) ==
    BigLeq(BigMul(s.den, BigOf(10000 + bound)), BigMul(s.num, BigOf(10000)))
ProfitAtMost(s, bound) ==
    BigLeq(BigMul(s.num, BigOf(10000)), BigMul(s.den, BigOf(10000 + bound)))

\* The band without its upper end.
InProfitBand_Unbounded(s) == ProfitAtLeast(s, MIN_PROFIT)

\* MIN_PROFIT <= profit_percent <= MAX_PROFIT
InProfitBand(s) == ProfitAtLeast(s, MIN_PROFIT) /\ ProfitAtMost(s, MAX_PROFIT)

\* The three symbols of a triangle.
Leg1Symbol(tri) == <<tri[2], tri[1]>>
Leg2Symbol(tri) == <<tri[3], tri[2]>>
Leg3Symbol(tri) == <<tri[3], tri[1]>>

\* A coroutine that has returned, and where it returned.  Its locals are gone
\* (log: the lines the evaluation wrote to trades.csv through log_trade).
Returned(t, where) ==
    [t EXCEPT !.pc = "done", !.exit = where, !.vol1 = 0, !.vol2 = 0, !.i = 0,
              !.calls = <<>>, !.failed = 0, !.log = <<>>, !.trade_start = NoTime]

\* check_triangle from its first line to its first await: the symbols must be
\* in the catalog and the volume at least ten minimum amounts of leg 1.
StartTask(tri, symbols, markets) ==
    LET t == [tri |-> tri, pc |-> "leg1", exit |-> None, admission |-> None,
              price1 |-> NoPrice, vol1 |-> 0, price2 |-> NoPrice, vol2 |-> 0,
              price3 |-> NoPrice, i |-> 0, calls |-> <<>>, trade_start |-> NoTime,
              failed |-> 0, log |-> <<>>, result |-> None]
    IN  IF ~(/\ InList(Leg1Symbol(tri), symbols)
             /\ InList(Leg2Symbol(tri), symbols)
             /\ InList(Leg3Symbol(tri), symbols))
        THEN Returned(t, "symbols")
        ELSE IF /\ Leg1Symbol(tri) \in DOMAIN markets
                /\ TARGET_VOLUME_USDT < markets[Leg1Symbol(tri)] * 10
        THEN Returned(t, "min_amount")
        ELSE t

\* get_execution_price on the book the exchange answers: the estimate, and
\* (None, 0, 0) when get_avg_price raises, which the retry loop catches like a
\* failed fetch.
get_execution_price(book, target_usdt) ==
    LET est == get_avg_price(book, target_usdt)
    IN  IF est.raised THEN NoOrderBook ELSE est

\* What get_execution_price may return for a target: the estimate over a book
\* the exchange answered, or (None, 0, 0) after MAX_RETRIES failed fetches.
Estimates(books, target) == {get_execution_price(b, target) : b \in books} \cup {NoOrderBook}

\* check_triangle without its tests of the estimates.
Absent_Untested(price) == FALSE

\* `not price`: None or 0.0
Absent(price) == price = NoPrice \/ price[1] = 0

\* vol * 0.99
Reserve(vol) == (vol * 99) \div 100

\* The handler `except Exception` of check_triangle: it awaits the error
\* notification and returns.
Faulted(t) == [t EXCEPT !.pc = "error"]

\* vol1 < TARGET_VOLUME_USDT * 0.8, for a target
UnderFilled(vol, target) == vol * 10 < target * 8

\* The first leg's estimate arrives.
\*   price1, vol1, liq1 = await get_execution_price(s1, "buy", TARGET_VOLUME_USDT)
Leg1Return(k) ==
    /\ tasks[k].pc = "leg1"
    /\ \E est \in Estimates(AskBooks1, TARGET_VOLUME_USDT) :
         tasks' = [tasks EXCEPT ![k] =
            IF Absent(est.price) \/ UnderFilled(est.vol, TARGET_VOLUME_USDT)
            THEN Returned(@, "leg1")
            ELSE [@ EXCEPT !.pc = "leg2", !.price1 = est.price, !.vol1 = est.vol]]
    /\ UNCHANGED <<now, cacheVars, balanceVars, guardVars, loop, ticks>>
    /\ UNCHANGED <<estimate, refreshed>>

\*   price2, vol2, liq2 = await get_execution_price(s2, "buy", vol1 * 0.99)
Leg2Return(k) ==
    /\ tasks[k].pc = "leg2"
    /\ \E est \in Estimates(AskBooks2, Reserve(tasks[k].vol1)) :
         tasks' = [tasks EXCEPT ![k] =
            IF Absent(est.price) THEN Returned(@, "leg2")
            ELSE [@ EXCEPT !.pc = "leg3", !.price2 = est.price, !.vol2 = est.vol]]
    /\ UNCHANGED <<now, cacheVars, balanceVars, guardVars, loop, ticks>>
    /\ UNCHANGED <<estimate, refreshed>>

\* The evaluator that takes the route's lock before it asks the guard: a
\* rejected evaluation leaves the route locked.
Leg3Return_Locking(k) ==
    /\ tasks[k].pc = "leg3"
    /\ \E est \in Estimates(BidBooks3, Reserve(tasks[k].vol2)) :
         LET t == tasks[k]
             seen == [t EXCEPT !.price3 = est.price]
             guard == can_execute_trade(route_id(t.tri))
             asked == [seen EXCEPT !.admission = guard.reason]
         IN  IF Absent(est.price) \/ ~InProfitBand(step3(t.price1, t.price2, est.price))
             THEN /\ tasks' = [tasks EXCEPT ![k] =
                        IF Absent(est.price) THEN Returned(t, "leg3")
                        ELSE Returned(seen, "profit")]
                  /\ UNCHANGED <<trade_limits_suspended, notices, active_trades>>
             ELSE /\ tasks' = [tasks EXCEPT ![k] =
                        IF guard.ret = "raise" THEN Faulted(asked)
                        ELSE IF guard.ret = "False" THEN Returned(asked, "guard")
                        ELSE [asked EXCEPT !.pc = "notify"]]
                  /\ trade_limits_suspended' = guard.suspended
                  /\ notices' = Notified(guard.notice)
                  /\ active_trades' = DictSet(active_trades, route_id(t.tri), now)
    /\ UNCHANGED <<now, cacheVars, balanceVars, trade_history,
                   last_trade_time, finished, loop, ticks>>
    /\ UNCHANGED <<estimate, refreshed>>

\* The third estimate arrives, and check_triangle runs on without suspending:
\* the profit, the band, can_execute_trade, up to the await of the detection
\* message.
\*   price3, vol3, liq3 = await get_execution_price(s3, "sell", vol2 * 0.99)
Leg3Return(k) ==
    /\ tasks[k].pc = "leg3"
    /\ \E est \in Estimates(BidBooks3, Reserve(tasks[k].vol2)) :
         LET t == tasks[k]
             seen == [t EXCEPT !.price3 = est.price]
             guard == can_execute_trade(route_id(t.tri))
             asked == [seen EXCEPT !.admission = guard.reason]
         IN  IF Absent(est.price) \/ ~InProfitBand(step3(t.price1, t.price2, est.price))
             THEN /\ tasks' = [tasks EXCEPT ![k] =
                        IF Absent(est.price) THEN Returned(t, "leg3")
                        ELSE Returned(seen, "profit")]
                  /\ UNCHANGED <<trade_limits_suspended, notices>>
             ELSE /\ tasks' = [tasks EXCEPT ![k] =
                        IF guard.ret = "raise" THEN Faulted(asked)
                        ELSE IF guard.ret = "False" THEN Returned(asked, "guard")
                        ELSE [asked EXCEPT !.pc = "notify"]]
                  /\ trade_limits_suspended' = guard.suspended
                  /\ notices' = Notified(guard.notice)
    /\ UNCHANGED <<now, cacheVars, balanceVars, active_trades, trade_history,
                   last_trade_time, finished, loop, ticks>>
    /\ UNCHANGED <<estimate, refreshed>>

\* The detection message is sent: log_trade(..., "detected"), the steps, and
\* execute_real_trade up to its first create_order.
\*   active_trades[route_id] = datetime.utcnow(); trade_start = time.time()
Detected(k) ==
    /\ tasks[k].pc = "notify"
    /\ active_trades' = DictSet(active_trades, route_id(tasks[k].tri), now)
    /\ tasks' = [tasks EXCEPT ![k] =
          [@ EXCEPT !.pc = "order", !.trade_start = now, !.i = 0, !.calls = <<1>>,
                    !.log = Append(@, "detected")]]
    /\ UNCHANGED <<now, cacheVars, balanceVars, trade_history, last_trade_time,
                   trade_limits_suspended, notices, finished, loop, ticks>>
    /\ UNCHANGED <<estimate, refreshed>>

\* The loop of execute_real_trade after create_order for steps[i]: "pace"
\* (sleep, then the next step), or the end: "True" (return True, trade_details)
\* or "False" (the except clause: return False, str(e)).  AfterOrder_Continued
\* is the loop with the try inside it: a failed order does not end it.
AfterOrder_Continued(outcome, i) ==
    IF i < 2 THEN "pace"
    ELSE IF outcome = "raise" THEN "False"
    ELSE "True"

AfterOrder(outcome, i) ==
    IF outcome = "raise" THEN "False"
    ELSE IF i < 2 THEN "pace"
    ELSE "True"

\* The pop at the end of the try block in place of the finally clause.
Unlocked_OnSuccess(rid, success) ==
    IF success THEN DictPop(active_trades, rid) ELSE active_trades

\* finally: active_trades.pop(route_id, None)
Unlocked(rid, success) == DictPop(active_trades, rid)

\* finally: trade_history.append(trade_start)
Recorded(trade_start) == Append(trade_history, trade_start)

\* create_order returns or raises (failed: the step whose order raised).  At
\* the end of the execution the finally clause runs: the pop, last_trade_time[route_id] = datetime.utcnow() (a
\* TypeError when last_trade_time is a datetime, which leaves the clause and
\* reaches check_triangle's handler), the append.  Back in check_triangle a
\* success rebinds last_trade_time to datetime.utcnow(); then the result
\* message is awaited.
OrderReturn(k) ==
    /\ tasks[k].pc = "order"
    /\ \E outcome \in OrderOutcomes :
         LET t == tasks[k]
             rid == route_id(t.tri)
             next == AfterOrder(outcome, t.i)
             stamped == last_trade_time.type = "dict"
             u == [t EXCEPT !.failed = IF outcome = "raise" THEN t.i + 1 ELSE @]
         IN  IF next = "pace"
             THEN /\ tasks' = [tasks EXCEPT ![k] = [u EXCEPT !.pc = "pace"]]
                  /\ UNCHANGED <<active_trades, trade_history, last_trade_time, finished>>
             ELSE /\ active_trades' = Unlocked(rid, next = "True")
                  /\ finished' = DictSet(finished, rid, now)
                  /\ trade_history' = IF stamped THEN Recorded(t.trade_start)
                                      ELSE trade_history
                  /\ last_trade_time' =
                        IF ~stamped THEN last_trade_time
                        ELSE IF next = "True" THEN DatetimeValue(now)
                        ELSE DictValue(DictSet(last_trade_time.items, rid, now))
                  /\ tasks' = [tasks EXCEPT ![k] =
                        IF ~stamped THEN Faulted([u EXCEPT !.result = "raise"])
                        ELSE [u EXCEPT !.pc = "report", !.result = next]]
    /\ UNCHANGED <<now, cacheVars, balanceVars, trade_limits_suspended, notices,
                   loop, ticks>>
    /\ UNCHANGED <<estimate, refreshed>>

\* await asyncio.sleep(1.0) between two orders, then the next create_order.
\* The sleep moves the clock by `elapsed`.
Paced(k, elapsed) ==
    /\ tasks[k].pc = "pace"
    /\ now' = now + elapsed
    /\ tasks' = [tasks EXCEPT ![k] =
          [@ EXCEPT !.pc = "order", !.i = @ + 1, !.calls = Append(@, tasks[k].i + 2)]]
    /\ UNCHANGED <<cacheVars, balanceVars, guardVars, loop, ticks>>
    /\ UNCHANGED <<estimate, refreshed>>

\* The result message is sent: log_trade(..., "executed" or "failed"), then
\* refresh_balances(force=True) up to its fetch_balance.
Reported(k) ==
    /\ tasks[k].pc = "report"
    /\ tasks' = [tasks EXCEPT ![k] =
          [@ EXCEPT !.pc = "refresh",
                    !.log = Append(@, IF tasks[k].result = "True" THEN "executed"
                                      ELSE "failed")]]
    /\ UNCHANGED <<now, cacheVars, balanceVars, guardVars, loop, ticks>>
    /\ UNCHANGED <<estimate, refreshed>>

\* refresh_balances once past its interval test, at time `at`: fetch_balance
\* answers a sheet, or it raises and the cached balances stay.  The
\* low-balance warning is sent when the flag is not set.
BalancesAnswered(at) ==
    \E sheet \in BalanceSheets :
       /\ current_balances' = sheet
       /\ last_balance_refresh' = at
       /\ balance_warning_sent' = (sheet["USDT"] < MIN_BALANCE_USDT)

\* The except clause that counts a failed fetch as a refresh.
BalancesRaised_Stamped(at) ==
    /\ last_balance_refresh' = at
    /\ UNCHANGED <<current_balances, balance_warning_sent>>

\* except Exception: logger.error(...); return current_balances
BalancesRaised(at) == UNCHANGED balanceVars

FetchedBalances(at) == BalancesAnswered(at) \/ BalancesRaised(at)

\* fetch_balance of the forced refresh after a trade answers; check_triangle returns.
Refreshed(k) ==
    /\ tasks[k].pc = "refresh"
    /\ FetchedBalances(now)
    /\ tasks' = [tasks EXCEPT ![k] =
          Returned(@, IF @.result = "True" THEN "executed" ELSE "failed")]
    /\ UNCHANGED <<now, cacheVars, guardVars, loop, ticks>>
    /\ UNCHANGED <<estimate, refreshed>>

\* The error message of the handler is sent; check_triangle returns.
ErrorReported(k) ==
    /\ tasks[k].pc = "error"
    /\ tasks' = [tasks EXCEPT ![k] = Returned(@, "error")]
    /\ UNCHANGED <<now, cacheVars, balanceVars, guardVars, loop, ticks>>
    /\ UNCHANGED <<estimate, refreshed>>

\* ---------------------------------------------------------------- scheduler

AllReturned == \A k \in DOMAIN tasks : tasks[k].pc = "done"

\* The top of an iteration of `while True`: the periodic refresh_balances(),
\* which fetches only when its own interval has passed as well.
LoopTop ==
    /\ loop.pc = "top"
    /\ ticks < MaxTicks
    /\ ticks' = ticks + 1
    /\ IF now - loop.last_balance_update > BALANCE_REFRESH_INTERVAL
       THEN /\ loop' = [loop EXCEPT !.pc = "cleanup", !.last_balance_update = now]
            /\ IF now - last_balance_refresh < BALANCE_REFRESH_INTERVAL
               THEN UNCHANGED balanceVars
               ELSE FetchedBalances(now)
       ELSE /\ loop' = [loop EXCEPT !.pc = "cleanup"]
            /\ UNCHANGED balanceVars
    /\ UNCHANGED <<now, cacheVars, guardVars, tasks>>
    /\ UNCHANGED <<estimate, refreshed>>

\* [t for t in trade_history if now - t < 604800]
KeptHistory == SelectSeq(trade_history, LAMBDA t : now - t < 604800)

\* {k: v for k, v in last_trade_time.items() if v > cutoff}, cutoff seven days back
KeptRoutes ==
    DictValue([r \in {x \in DOMAIN last_trade_time.items :
                         last_trade_time.items[x] > now - 604800}
                  |-> last_trade_time.items[r]])

\* The hourly cleanup_old_data().  On a datetime, last_trade_time.items() is
\* an AttributeError (after trade_history was pruned): `except Exception` of
\* main_loop logs it and sleeps 30 s, and last_cleanup stays as it was.
LoopCleanup ==
    /\ loop.pc = "cleanup"
    /\ IF now - loop.last_cleanup > 3600
       THEN /\ trade_history' = KeptHistory
            /\ IF last_trade_time.type = "dict"
               THEN /\ last_trade_time' = KeptRoutes
                    /\ loop' = [loop EXCEPT !.pc = "balance", !.last_cleanup = now]
               ELSE /\ loop' = [loop EXCEPT !.pc = "fault"]
                    /\ UNCHANGED last_trade_time
       ELSE /\ loop' = [loop EXCEPT !.pc = "balance"]
            /\ UNCHANGED <<trade_history, last_trade_time>>
    /\ UNCHANGED <<now, cacheVars, balanceVars, active_trades, trade_limits_suspended,
                   notices, finished, ticks, tasks>>
    /\ UNCHANGED <<estimate, refreshed>>

\* The minimum-balance test: below it, sleep 300 s, refresh_balances(force=True)
\* and `continue`.
LoopBalance ==
    /\ loop.pc = "balance"
    /\ IF current_balances["USDT"] < MIN_BALANCE_USDT
       THEN /\ now' = now + 300
            /\ FetchedBalances(now + 300)
            /\ loop' = [loop EXCEPT !.pc = "top"]
       ELSE /\ loop' = [loop EXCEPT !.pc = "symbols"]
            /\ UNCHANGED <<now, balanceVars>>
    /\ UNCHANGED <<cacheVars, guardVars, ticks, tasks>>
    /\ UNCHANGED <<estimate, refreshed>>

\* refresh_symbols() once past its interval test: load_markets answers a
\* catalog, or it raises and the caches stay.
MarketsAnswered ==
    \E catalog \in Catalogs :
       /\ symbols_cache' = catalog.symbols
       /\ markets_cache' = catalog.min_amount
       /\ triangles_cache' = find_triangles(catalog.symbols)
       /\ last_symbol_refresh' = now

\* except Exception: logger.error(...); return symbols_cache, markets_cache, triangles_cache
MarketsRaised == UNCHANGED cacheVars

LoadedMarkets == MarketsAnswered \/ MarketsRaised

\* refresh_symbols(), then one check_triangle per triangle, each run to its
\* first await by asyncio.gather.  scanning_active is True: no /scan_off
\* command arrives.
LoopScan ==
    /\ loop.pc = "symbols"
    /\ IF now - last_symbol_refresh < SYMBOL_REFRESH_INTERVAL
       THEN UNCHANGED cacheVars
       ELSE LoadedMarkets
    /\ tasks' = [k \in 1..Len(triangles_cache') |->
                    StartTask(triangles_cache'[k], symbols_cache', markets_cache')]
    /\ loop' = [loop EXCEPT !.pc = "gather"]
    /\ UNCHANGED <<now, balanceVars, guardVars, ticks>>
    /\ UNCHANGED <<estimate, refreshed>>

\* asyncio.gather returns when every check_triangle has; await asyncio.sleep(10).
LoopSleep ==
    /\ loop.pc = "gather"
    /\ AllReturned
    /\ \E d \in TickSleeps : now' = now + d
    /\ tasks' = <<>>
    /\ loop' = [loop EXCEPT !.pc = "top"]
    /\ UNCHANGED <<cacheVars, balanceVars, guardVars, ticks>>
    /\ UNCHANGED <<estimate, refreshed>>

\* The handler with `break` in place of the sleep.
LoopFault_Break ==
    /\ loop.pc = "fault"
    /\ loop' = [loop EXCEPT !.pc = "stopped", !.errors = @ + 1]
    /\ UNCHANGED <<now, cacheVars, balanceVars, guardVars, ticks, tasks>>
    /\ UNCHANGED <<estimate, refreshed>>

\* except Exception: logger.error(...) (errors counts the lines logged), then
\* await asyncio.sleep(30) and the next iteration.
LoopFault ==
    /\ loop.pc = "fault"
    /\ now' = now + 30
    /\ loop' = [loop EXCEPT !.pc = "top", !.errors = @ + 1]
    /\ UNCHANGED <<cacheVars, balanceVars, guardVars, ticks, tasks>>
    /\ UNCHANGED <<estimate, refreshed>>

\* --------------------------------------------------------------- the system

\* main() has bound the globals, and main_loop has found the exchange, loaded
\* the markets and fetched the balances, at time 0.
Init ==
    /\ now = 0
    /\ \E catalog \in Catalogs :
         /\ symbols_cache = catalog.symbols
         /\ markets_cache = catalog.min_amount
         /\ triangles_cache = find_triangles(catalog.symbols)
    /\ last_symbol_refresh = 0
    /\ current_balances \in BalanceSheets
    /\ last_balance_refresh = 0
    /\ balance_warning_sent = (current_balances["USDT"] < MIN_BALANCE_USDT)
    /\ active_trades = EmptyDict
    /\ trade_history = <<>>
    /\ last_trade_time = DictValue(EmptyDict)
    /\ trade_limits_suspended = FALSE
    /\ loop = [pc |-> "top", last_balance_update |-> 0, last_cleanup |-> 0, errors |-> 0]
    /\ ticks = 0
    /\ tasks = <<>>
    /\ notices = [suspended |-> 0, resumed |-> 0]
    /\ finished = EmptyDict
    /\ estimate = NoEstimate
    /\ refreshed = NoRefresh

Leg1 == \E k \in DOMAIN tasks : Leg1Return(k)
Leg2 == \E k \in DOMAIN tasks : Leg2Return(k)
Leg3 == \E k \in DOMAIN tasks : Leg3Return(k)
Detection == \E k \in DOMAIN tasks : Detected(k)
Order == \E k \in DOMAIN tasks : OrderReturn(k)
\* The clock of Spec is moved by the sleeps of main_loop alone: what an
\* iteration does in between (the exchange calls, the one-second pacing sleeps)
\* takes no time on it.  In SpecPaced a pacing sleep takes its second.
Pace == \E k \in DOMAIN tasks : Paced(k, 0)
PaceElapsed == \E k \in DOMAIN tasks : Paced(k, 1)
Report == \E k \in DOMAIN tasks : Reported(k)
Refresh == \E k \in DOMAIN tasks : Refreshed(k)
ErrorReport == \E k \in DOMAIN tasks : ErrorReported(k)

Steps ==
    \/ LoopTop
    \/ LoopCleanup
    \/ LoopBalance
    \/ LoopScan
    \/ LoopSleep
    \/ LoopFault
    \/ Leg1
    \/ Leg2
    \/ Leg3
    \/ Detection
    \/ Order
    \/ Report
    \/ Refresh
    \/ ErrorReport

Next == Steps \/ Pace
NextPaced == Steps \/ PaceElapsed

Spec == Init /\ [][Next]_vars
SpecPaced == Init /\ [][NextPaced]_vars

\* ------------------------------------------------------------------ claims

\* A coroutine inside execute_real_trade, from the lock to the finally clause.
Executing(t) == t.pc \in {"order", "pace"}

\* In this step, coroutine k called can_execute_trade.
Checked(k) ==
    /\ k \in DOMAIN tasks'
    /\ tasks[k].admission = None
    /\ tasks'[k].admission # None

\* In this step, the execution of coroutine k came to its end.
ExecutionReturned(k) ==
    /\ k \in DOMAIN tasks'
    /\ tasks[k].pc = "order"
    /\ tasks'[k].pc \in {"report", "error"}

\* One of the three sliding windows holds its configured maximum or more.
WindowFull ==
    \/ WindowCount(60) >= MAX_TRADES_PER_MINUTE
    \/ WindowCount(3600) >= MAX_TRADES_PER_HOUR
    \/ WindowCount(86400) >= MAX_TRADES_PER_DAY

\* C1: the number of routes in execution (locked in active_trades) never
\* exceeds MAX_CONCURRENT_TRADES.
C1_ConcurrencyCap == Cardinality(DOMAIN active_trades) <= MAX_CONCURRENT_TRADES

\* C2: a route whose execution has ended is in execution again only when
\* TRADE_COOLDOWN seconds have passed since that end.
C2_CooldownRespected ==
    \A k \in DOMAIN tasks :
        LET t == tasks[k]
            rid == route_id(t.tri)
        IN  (Executing(t) /\ rid \in DOMAIN finished)
                => t.trade_start - finished[rid] >= TRADE_COOLDOWN

\* A route is in execution for the second time.
C2_Witness ==
    \E k \in DOMAIN tasks :
        /\ Executing(tasks[k])
        /\ route_id(tasks[k].tri) \in DOMAIN finished

C4_SuspensionNoticeOnce ==
    /\ [](notices.suspended - notices.resumed = IF trade_limits_suspended THEN 1 ELSE 0)
    /\ [][/\ \A k \in DOMAIN tasks :
               (Checked(k) /\ tasks'[k].admission = "limits") =>
                   /\ trade_limits_suspended'
                   /\ notices'.suspended =
                        notices.suspended + IF trade_limits_suspended THEN 0 ELSE 1
          /\ notices'.suspended # notices.suspended =>
                /\ ~trade_limits_suspended
                /\ trade_limits_suspended'
                /\ \E k \in DOMAIN tasks : Checked(k) /\ tasks'[k].admission = "limits"]_vars

\* Two checks of one iteration were rejected by a window, and one suspension
\* notice was sent.
C4_Witness ==
    /\ notices.suspended = 1
    /\ trade_limits_suspended
    /\ \E j, k \in DOMAIN tasks :
         /\ j # k
         /\ tasks[j].admission = "limits"
         /\ tasks[k].admission = "limits"

\* C5: a check that finds no window full while trade_limits_suspended is set
\* clears the flag and sends one resume notice, and a resume notice is sent
\* in no other step.
C5_ResumeNoticeOnce ==
    [][/\ \A k \in DOMAIN tasks :
            (Checked(k) /\ tasks'[k].admission \in {"balance", "True"}) =>
                /\ ~trade_limits_suspended'
                /\ notices'.resumed =
                     notices.resumed + IF trade_limits_suspended THEN 1 ELSE 0
       /\ notices'.resumed # notices.resumed =>
             /\ trade_limits_suspended
             /\ ~WindowFull
             /\ \E k \in DOMAIN tasks :
                  Checked(k) /\ tasks'[k].admission \in {"balance", "True"}]_vars

\* Trading was suspended and has resumed, on the check that admitted a route.
C5_Witness ==
    /\ notices.suspended = 1
    /\ notices.resumed = 1
    /\ ~trade_limits_suspended
    /\ \E k \in DOMAIN tasks : tasks[k].admission = "True"

\* The cached free balance of an asset (0 when the exchange lists none).
FreeBalance(asset) ==
    IF asset \in DOMAIN current_balances THEN current_balances[asset] ELSE 0

\* C6: a route is admitted only when the free balance of its anchor asset is
\* at least 1.1 times TARGET_VOLUME_USDT.
C6_AnchorBalanceFloor ==
    [][\A k \in DOMAIN tasks :
          (Checked(k) /\ tasks'[k].admission = "True") =>
              FreeBalance(tasks[k].tri[1]) * 10 >= TARGET_VOLUME_USDT * 11]_vars

\* The estimated profit of a coroutine lies in [MIN_PROFIT, MAX_PROFIT].
EstimateInBand(t) ==
    LET s == step3(t.price1, t.price2, t.price3)
    IN  ProfitAtLeast(s, MIN_PROFIT) /\ ProfitAtMost(s, MAX_PROFIT)

\* C7: a route goes on to the admission check exactly when its estimated
\* profit lies in [MIN_PROFIT, MAX_PROFIT]; out of the band it is dropped
\* before the check, and only an admitted route is executed.
C7_ProfitBandGate ==
    /\ [](\A k \in DOMAIN tasks :
            LET t == tasks[k]
            IN  /\ t.pc \in {"notify", "order", "pace", "report", "refresh"}
                      => t.admission = "True"
                /\ (t.admission # None \/ t.exit = "profit") => t.price3 # NoPrice)
    /\ [][\A k \in DOMAIN tasks :
            /\ Checked(k) => tasks[k].pc = "leg3"
            /\ (k \in DOMAIN tasks' /\ tasks[k].pc = "leg3" /\ tasks'[k].price3 # NoPrice) =>
                  /\ tasks'[k].admission # None <=> EstimateInBand(tasks'[k])
                  /\ tasks'[k].exit = "profit" <=> ~EstimateInBand(tasks'[k])]_vars

\* In one iteration a route was dropped for its profit and another went on to
\* the admission check.
C7_Witness ==
    \E j, k \in DOMAIN tasks :
        /\ tasks[j].exit = "profit"
        /\ tasks[k].admission # None

\* C8: the orders of an execution are placed in the order leg 1, leg 2, leg 3,
\* each after the one before it has returned; once an order has failed no
\* further order is placed, and a completed execution has placed all three.
C8_LegsInOrder ==
    \A k \in DOMAIN tasks :
        LET t == tasks[k]
        IN  /\ Len(t.calls) <= 3
            /\ \A n \in 1..Len(t.calls) : t.calls[n] = n
            /\ Executing(t) => Len(t.calls) = t.i + 1
            /\ t.failed # 0 => (Len(t.calls) = t.failed /\ ~Executing(t))
            /\ (t.pc \in {"report", "refresh", "error"} /\ t.result # None /\ t.failed = 0)
                  => t.calls = <<1, 2, 3>>

\* The order of leg 2 failed, after that of leg 1 and with none for leg 3.
C8_Witness ==
    \E k \in DOMAIN tasks :
        /\ tasks[k].failed = 2
        /\ tasks[k].calls = <<1, 2>>
        /\ tasks[k].result = "False"

\* C9: active_trades holds exactly the routes in execution, and the end of an
\* execution (all orders placed, an order failed, or the finally clause
\* raised) takes its route out of it.
C9_LockReleased ==
    /\ [](DOMAIN active_trades =
            {route_id(tasks[k].tri) : k \in {j \in DOMAIN tasks : Executing(tasks[j])}})
    /\ [][\A k \in DOMAIN tasks :
            ExecutionReturned(k) =>
                /\ route_id(tasks[k].tri) \in DOMAIN active_trades
                /\ DOMAIN active_trades' = DOMAIN active_trades \ {route_id(tasks[k].tri)}]_vars

\* An execution ended with all its orders placed, another with an exception
\* of the finally clause, and no route is locked.
C9_Witness ==
    /\ active_trades = EmptyDict
    /\ \E j, k \in DOMAIN tasks :
         /\ tasks[j].result = "True"
         /\ tasks[k].pc = "error" /\ tasks[k].result = "raise"

\* C10: the end of an execution appends the time of that end to trade_history
\* and sets the route's entry of last_trade_time to it.
C10_CompletionRecorded ==
    [][\A k \in DOMAIN tasks :
          ExecutionReturned(k) =>
              /\ trade_history' = Append(trade_history, now)
              /\ last_trade_time'.type = "dict"
              /\ route_id(tasks[k].tri) \in DOMAIN last_trade_time'.items
              /\ last_trade_time'.items[route_id(tasks[k].tri)] = now]_vars

\* ------------------------------------------- the builder on its own

\* main_loop before `while True`, with the first refresh_symbols(force=True)
\* still to come.
BeforeStartup ==
    /\ now = 0
    /\ symbols_cache = <<>>
    /\ markets_cache = <<>>
    /\ triangles_cache = <<>>
    /\ last_symbol_refresh = 0
    /\ current_balances \in BalanceSheets
    /\ last_balance_refresh = 0
    /\ balance_warning_sent = FALSE
    /\ active_trades = EmptyDict
    /\ trade_history = <<>>
    /\ last_trade_time = DictValue(EmptyDict)
    /\ trade_limits_suspended = FALSE
    /\ loop = [pc |-> "startup", last_balance_update |-> 0, last_cleanup |-> 0, errors |-> 0]
    /\ ticks = 0
    /\ tasks = <<>>
    /\ notices = [suspended |-> 0, resumed |-> 0]
    /\ finished = EmptyDict
    /\ refreshed = NoRefresh

InitBuilder == BeforeStartup /\ estimate = NoEstimate

\* await refresh_symbols(force=True): load_markets answers a catalog.
StartupRefresh ==
    /\ loop.pc = "startup"
    /\ \E symbols \in BuilderCatalogs :
         /\ symbols_cache' = symbols
         /\ markets_cache' = [x \in {symbols[k] : k \in 1..Len(symbols)} |-> 1]
         /\ triangles_cache' = find_triangles(symbols)
    /\ last_symbol_refresh' = now
    /\ loop' = [loop EXCEPT !.pc = "loaded"]
    /\ UNCHANGED <<now, balanceVars, guardVars, ticks, tasks>>
    /\ UNCHANGED <<estimate, refreshed>>

SpecBuilder == InitBuilder /\ [][StartupRefresh]_vars

\* C11: the builder emits (anchor, mid1, mid2) exactly when anchor is a
\* configured anchor and the evaluator's legs mid1/anchor, mid2/mid1 and
\* mid2/anchor are in the catalog.
C11_TrianglesAreEvaluable ==
    loop.pc = "loaded" =>
        \A anchor, mid1, mid2 \in BuilderAssets :
            InList(<<anchor, mid1, mid2>>, triangles_cache) <=>
                /\ InList(anchor, START_COINS)
                /\ InList(<<mid1, anchor>>, symbols_cache)
                /\ InList(<<mid2, mid1>>, symbols_cache)
                /\ InList(<<mid2, anchor>>, symbols_cache)

\* C12: no triangle is emitted twice, and the triangles emitted are a matter
\* of the set of symbols alone: those with mid1/anchor, mid1/mid2 and
\* mid2/anchor in the catalog.
C12_TrianglesOnce ==
    loop.pc = "loaded" =>
        /\ \A j, k \in 1..Len(triangles_cache) :
              j # k => triangles_cache[j] # triangles_cache[k]
        /\ \A anchor, mid1, mid2 \in BuilderAssets :
              InList(<<anchor, mid1, mid2>>, triangles_cache) <=>
                  /\ InList(anchor, START_COINS)
                  /\ InList(<<mid1, anchor>>, symbols_cache)
                  /\ InList(<<mid1, mid2>>, symbols_cache)
                  /\ InList(<<mid2, anchor>>, symbols_cache)

\* The catalog has both directions of a market, and two triangles are emitted.
C12_Witness ==
    /\ loop.pc = "loaded"
    /\ Len(triangles_cache) >= 2
    /\ \E a, b \in BuilderAssets :
         InList(<<a, b>>, symbols_cache) /\ InList(<<b, a>>, symbols_cache)

\* ----------------------------------------- the estimator on its own

\* get_avg_price is about to be called on a side and a target.
InitEstimator ==
    /\ BeforeStartup
    /\ \E side \in EstimatorBooks, target \in EstimatorTargets :
         estimate = [pc |-> "called", orderbook_side |-> side, target_usdt |-> target]

\* get_avg_price returns.
EstimateReturned ==
    /\ estimate.pc = "called"
    /\ estimate' = [pc |-> "returned",
                    orderbook_side |-> estimate.orderbook_side,
                    target_usdt |-> estimate.target_usdt,
                    result |-> get_avg_price(estimate.orderbook_side, estimate.target_usdt)]
    /\ UNCHANGED <<now, cacheVars, balanceVars, guardVars, loop, ticks, tasks, refreshed>>

SpecEstimator == InitEstimator /\ [][EstimateReturned]_vars

\* The notional of the first k levels of a side.
RECURSIVE Notional(_, _)
Notional(side, k) ==
    IF k = 0 THEN 0 ELSE Notional(side, k - 1) + side[k][1] * side[k][2]

\* The level at which the notional of a side reaches the target.
LastConsumed(side, target) ==
    CHOOSE k \in 1..Len(side) :
        /\ Notional(side, k) >= target
        /\ \A j \in 1..(k - 1) : Notional(side, j) < target

\* C13: on a side whose notional is at least the target, get_avg_price
\* returns a price, fills exactly the target, and the price lies between the
\* price of the best level and that of the last level consumed.
C13_FilledAtTarget ==
    (/\ estimate.pc = "returned"
     /\ Notional(estimate.orderbook_side, Len(estimate.orderbook_side)) >= estimate.target_usdt)
    => LET side == estimate.orderbook_side
           r == estimate.result
           best == side[1][1]
           last == side[LastConsumed(side, estimate.target_usdt)][1]
           low == IF best < last THEN best ELSE last
           high == IF best < last THEN last ELSE best
       IN  /\ ~r.raised
           /\ r.price # NoPrice
           /\ r.vol = estimate.target_usdt
           /\ low * r.price[2] <= r.price[1]
           /\ r.price[1] <= high * r.price[2]

\* The target was reached inside the second level, at a price strictly
\* between the two levels' prices.
C13_Witness ==
    /\ estimate.pc = "returned"
    /\ Len(estimate.orderbook_side) = 2
    /\ Notional(estimate.orderbook_side, 1) < estimate.target_usdt
    /\ Notional(estimate.orderbook_side, 2) > estimate.target_usdt
    /\ estimate.result.price[1] > estimate.orderbook_side[1][1] * estimate.result.price[2]
    /\ estimate.result.price[1] < estimate.orderbook_side[2][1] * estimate.result.price[2]

\* C14: get_avg_price returns no price exactly when the notional of the side
\* is below 90% of the (positive) target, and never raises then.
C14_AbsentBelowNinety ==
    estimate.pc = "returned" =>
        LET total == Notional(estimate.orderbook_side, Len(estimate.orderbook_side))
        IN  /\ ~estimate.result.raised
            /\ estimate.result.price = NoPrice <=> total * 10 < estimate.target_usdt * 9

\* A side holding exactly 90% of the target gets a price.
C14_Witness ==
    /\ estimate.pc = "returned"
    /\ Notional(estimate.orderbook_side, Len(estimate.orderbook_side)) * 10
          = estimate.target_usdt * 9
    /\ estimate.result.price # NoPrice

\* --------------------------------------------------- the system, continued

\* An estimate that was returned with a price.
Present(price) == price # NoPrice /\ price[1] > 0

\* C15: an evaluation asks for the estimate of leg 2 only with that of leg 1
\* present, for that of leg 3 only with that of leg 2 present, and places an
\* order only with all three present.
C15_EstimatesBeforeOrders ==
    \A k \in DOMAIN tasks :
        LET t == tasks[k]
        IN  /\ t.pc = "leg1" => (t.price1 = NoPrice /\ t.price2 = NoPrice /\ t.price3 = NoPrice)
            /\ t.pc = "leg2" => (Present(t.price1) /\ t.price2 = NoPrice /\ t.price3 = NoPrice)
            /\ t.pc = "leg3" => (Present(t.price1) /\ Present(t.price2) /\ t.price3 = NoPrice)
            /\ (t.calls # <<>> \/ t.log # <<>> \/ t.admission = "True")
                  => (Present(t.price1) /\ Present(t.price2) /\ Present(t.price3))

\* The first order of an evaluation has been placed, after three estimates.
C15_Witness ==
    \E k \in DOMAIN tasks :
        /\ tasks[k].pc = "order"
        /\ tasks[k].calls = <<1>>
        /\ Present(tasks[k].price1) /\ Present(tasks[k].price2) /\ Present(tasks[k].price3)

\* C16: no two executions of one route are in flight together: the tasks
\* inside execute_real_trade have different routes, and a task enters it only
\* while its route is not locked in active_trades.
C16_OneExecutionPerRoute ==
    /\ [](\A j, k \in DOMAIN tasks :
            (j # k /\ Executing(tasks[j]) /\ Executing(tasks[k]))
                => route_id(tasks[j].tri) # route_id(tasks[k].tri))
    /\ [][\A k \in DOMAIN tasks :
            (k \in DOMAIN tasks' /\ ~Executing(tasks[k]) /\ Executing(tasks'[k]))
                => route_id(tasks[k].tri) \notin DOMAIN active_trades]_vars

\* A task enters execute_real_trade while another route is in flight.
C16_Witness ==
    \E j, k \in DOMAIN tasks :
        /\ j # k
        /\ Executing(tasks[j])
        /\ tasks[k].pc = "order" /\ tasks[k].calls = <<1>>

\* C17: once an execution has completed, an admission check made with nothing
\* in flight, every completed route's cooldown elapsed, no window full and
\* the balance sufficient admits the route.
C17_CycleCloses ==
    [][\A k \in DOMAIN tasks :
          (/\ Checked(k)
           /\ finished # EmptyDict
           /\ active_trades = EmptyDict
           /\ \A rid \in DOMAIN finished : now - finished[rid] >= TRADE_COOLDOWN
           /\ ~WindowFull
           /\ FreeBalance("USDT") * 10 >= TARGET_VOLUME_USDT * 11
           /\ FreeBalance(tasks[k].tri[1]) * 10 >= TARGET_VOLUME_USDT * 11)
          => tasks'[k].admission = "True"]_vars

\* ------------------------------------------------------------ cancellation

\* A coroutine that ended with the CancelledError thrown at its await; the
\* orders it had placed are remembered.
Aborted(t) == [Returned(t, "cancelled") EXCEPT !.calls = t.calls]

\* asyncio.run cancels main(): CancelledError is thrown at the await main_loop
\* is suspended in, the gather or the sleep between two iterations.  A
\* cancelled gather cancels its check_triangle tasks; in execute_real_trade
\* neither `except Exception` nor check_triangle's handler catches the error,
\* and the finally clause runs (the pop, then the stamp and the append unless
\* last_trade_time is a datetime).  main_loop leaves the loop by `break`.
Cancelled ==
    /\ loop.pc \in {"gather", "top"}
    /\ loop' = [loop EXCEPT !.pc = "stopped"]
    /\ LET running == SelectSeq(tasks, Executing)
           routes == {route_id(running[n].tri) : n \in 1..Len(running)}
           stamped == last_trade_time.type = "dict"
       IN  /\ active_trades' = [r \in DOMAIN active_trades \ routes |-> active_trades[r]]
           /\ finished' = [r \in DOMAIN finished \cup routes |->
                              IF r \in routes THEN now ELSE finished[r]]
           /\ trade_history' =
                 IF stamped
                 THEN trade_history \o [n \in 1..Len(running) |-> running[n].trade_start]
                 ELSE trade_history
           /\ last_trade_time' =
                 IF stamped
                 THEN DictValue([r \in DOMAIN last_trade_time.items \cup routes |->
                                    IF r \in routes THEN now ELSE last_trade_time.items[r]])
                 ELSE last_trade_time
    /\ tasks' = [k \in DOMAIN tasks |->
                    IF tasks[k].pc = "done" THEN tasks[k] ELSE Aborted(tasks[k])]
    /\ UNCHANGED <<now, cacheVars, balanceVars, trade_limits_suspended, notices, ticks,
                   estimate, refreshed>>

NextCancel == Next \/ Cancelled
SpecCancel == Init /\ [][NextCancel]_vars

\* C18: a cancellation never ends an execution that has placed an order and
\* is still on its way: every task ended by it was outside execute_real_trade.
C18_NoAbortMidLeg ==
    \A k \in DOMAIN tasks : tasks[k].exit = "cancelled" => tasks[k].calls = <<>>

\* ------------------------------------------------------------ the loop goes on

\* asyncio.sleep(30) of the handler returns: the handler's step is taken.
SpecFair == Spec /\ WF_vars(LoopFault)

\* C19: an exception caught by `except Exception` of main_loop does not end
\* the loop: the one step main_loop takes from there is the 30 s sleep, one
\* more error logged, back at the top of `while True`; that step is taken; and
\* without a cancellation the loop never stops.
C19_LoopSurvivesFault ==
    /\ [](loop.pc # "stopped")
    /\ [][(loop.pc = "fault" /\ loop' # loop) =>
             /\ loop'.pc = "top"
             /\ loop'.errors = loop.errors + 1
             /\ now' = now + 30]_vars
    /\ [][loop'.errors # loop.errors => loop.pc = "fault"]_vars
    /\ (loop.pc = "fault") ~> (loop.pc = "top")

\* An iteration has failed, and main_loop is back at the top of its loop.
C19_Witness ==
    /\ loop.pc = "top"
    /\ loop.errors = 1
    /\ last_trade_time.type = "datetime"

\* C20: an accepted opportunity is logged as detected before its execution;
\* the end of the execution is followed by the result message and the log
\* line, "executed" exactly after a success and "failed" otherwise, and then
\* by the forced balance refresh.
C20_ExecutionReported ==
    [][\A k \in DOMAIN tasks :
          k \in DOMAIN tasks' =>
              /\ (~Executing(tasks[k]) /\ Executing(tasks'[k]))
                    => (tasks[k].pc = "notify" /\ tasks'[k].log = <<"detected">>)
              /\ ExecutionReturned(k)
                    => (tasks'[k].pc = "report" /\ tasks'[k].result \in {"True", "False"})
              /\ (tasks[k].pc = "report" /\ tasks'[k].pc # "report")
                    => /\ tasks'[k].pc = "refresh"
                       /\ tasks'[k].log =
                             <<"detected", IF tasks[k].result = "True" THEN "executed"
                                           ELSE "failed">>
              /\ tasks'[k].pc = "refresh" => tasks[k].pc \in {"report", "refresh"}]_vars

\* ------------------------------------------------------- abandoned evaluations

\* In this step, check_triangle k returned before the detection message: an
\* estimate was absent (or leg 1 filled under 80%), the return was outside
\* the band, or can_execute_trade returned False.
Abandoned(k) ==
    /\ k \in DOMAIN tasks'
    /\ tasks[k].pc \in {"leg1", "leg2", "leg3"}
    /\ tasks'[k].pc = "done"
    /\ tasks'[k].exit \in {"leg1", "leg2", "leg3", "profit", "guard"}

\* C21: an abandoned evaluation (absent estimate, return outside the band,
\* admission rejected) has placed no order, sent no detection message and
\* written no trade-log line, and its last step leaves the in-flight set, the
\* route timestamps and the trade windows as they were.
C21_AbandonChangesNothing ==
    [][\A k \in DOMAIN tasks :
          Abandoned(k) =>
              /\ tasks[k].calls = <<>> /\ tasks'[k].calls = <<>>
              /\ tasks[k].log = <<>> /\ tasks'[k].log = <<>>
              /\ tasks[k].trade_start = NoTime
              /\ tasks'[k].exit = "guard" <=> tasks'[k].admission \in {"active", "cooldown", "limits", "balance"}
              /\ active_trades' = active_trades
              /\ last_trade_time' = last_trade_time
              /\ trade_history' = trade_history
              /\ finished' = finished]_vars

\* An evaluation was rejected by a full window while the guard held a recorded
\* trade and a route timestamp, and another was abandoned at an estimate or at
\* the band.
C21_Witness ==
    /\ \E k \in DOMAIN tasks :
          /\ tasks[k].pc = "done" /\ tasks[k].exit = "guard"
          /\ tasks[k].admission = "limits"
    /\ \E k \in DOMAIN tasks :
          tasks[k].pc = "done" /\ tasks[k].exit \in {"leg1", "leg2", "leg3", "profit"}
    /\ trade_history # <<>>
    /\ last_trade_time.type = "dict" /\ DOMAIN last_trade_time.items # {}

\* ------------------------------------------------- the refreshes on their own

\* The calls of refresh_symbols and refresh_balances as main_loop and
\* check_triangle make them, with nothing else of the bot: the two forced calls
\* of the startup, then the periodic calls of an iteration and the forced
\* refresh_balances after a trade or a low balance, each a given time after
\* the one before.  time.time() is far from 0, the value the two timestamps
\* have before the first refresh.
StartTime == 90000
MaxRefreshCalls == 3
RefreshSleeps == {10, 1900, 86400}

\* A call that has not been made.
NoCall == [k |-> 0, force |-> FALSE, attempted |-> FALSE, raised |-> FALSE,
           retry |-> FALSE, ret |-> <<>>]

\* The k-th call of one of the two functions: its argument, whether it went
\* past the interval test to the exchange, whether the exchange raised,
\* whether the call before it had failed, and what it returned.
Call(last, force, attempted, raised, ret) ==
    [k |-> last.k + 1, force |-> force, attempted |-> attempted, raised |-> raised,
     retry |-> last.raised, ret |-> ret]

InitRefresh ==
    /\ now = StartTime
    /\ symbols_cache = <<>>
    /\ markets_cache = <<>>
    /\ triangles_cache = <<>>
    /\ last_symbol_refresh = 0
    /\ current_balances = [a \in Assets |-> 0]
    /\ last_balance_refresh = 0
    /\ balance_warning_sent = FALSE
    /\ active_trades = EmptyDict
    /\ trade_history = <<>>
    /\ last_trade_time = DictValue(EmptyDict)
    /\ trade_limits_suspended = FALSE
    /\ loop = [pc |-> "startup", last_balance_update |-> 0, last_cleanup |-> 0, errors |-> 0]
    /\ ticks = 0
    /\ tasks = <<>>
    /\ notices = [suspended |-> 0, resumed |-> 0]
    /\ finished = EmptyDict
    /\ estimate = NoEstimate
    /\ refreshed = [pc |-> "calls", n |-> 0, waited |-> FALSE,
                    symbols |-> NoCall, balances |-> NoCall]

\* refresh_symbols(force), from the call to the return.
refresh_symbols(force) ==
    IF ~force /\ now - last_symbol_refresh < SYMBOL_REFRESH_INTERVAL
    THEN /\ UNCHANGED cacheVars
         /\ refreshed' = [refreshed EXCEPT
               !.symbols = Call(@, force, FALSE, FALSE,
                                <<symbols_cache, markets_cache, triangles_cache>>),
               !.n = @ + 1, !.waited = FALSE]
    ELSE \/ /\ MarketsAnswered
            /\ refreshed' = [refreshed EXCEPT
                  !.symbols = Call(@, force, TRUE, FALSE,
                                   <<symbols_cache', markets_cache', triangles_cache'>>),
                  !.n = @ + 1, !.waited = FALSE]
         \/ /\ MarketsRaised
            /\ refreshed' = [refreshed EXCEPT
                  !.symbols = Call(@, force, TRUE, TRUE,
                                   <<symbols_cache', markets_cache', triangles_cache'>>),
                  !.n = @ + 1, !.waited = FALSE]

\* refresh_balances(force), from the call to the return.
refresh_balances(force) ==
    IF ~force /\ now - last_balance_refresh < BALANCE_REFRESH_INTERVAL
    THEN /\ UNCHANGED balanceVars
         /\ refreshed' = [refreshed EXCEPT
               !.balances = Call(@, force, FALSE, FALSE, current_balances),
               !.n = @ + 1, !.waited = FALSE]
    ELSE \/ /\ BalancesAnswered(now)
            /\ refreshed' = [refreshed EXCEPT
                  !.balances = Call(@, force, TRUE, FALSE, current_balances'),
                  !.n = @ + 1, !.waited = FALSE]
         \/ /\ BalancesRaised(now)
            /\ refreshed' = [refreshed EXCEPT
                  !.balances = Call(@, force, TRUE, TRUE, current_balances'),
                  !.n = @ + 1, !.waited = FALSE]

\* await refresh_symbols(force=True) of the startup.
StartupSymbols ==
    /\ loop.pc = "startup"
    /\ refresh_symbols(TRUE)
    /\ loop' = [loop EXCEPT !.pc = "startup_balances"]
    /\ UNCHANGED <<now, balanceVars, guardVars, ticks, tasks, estimate>>

\* await refresh_balances(force=True) of the startup; last_balance_update = time.time()
StartupBalances ==
    /\ loop.pc = "startup_balances"
    /\ refresh_balances(TRUE)
    /\ loop' = [loop EXCEPT !.pc = "running", !.last_balance_update = now]
    /\ UNCHANGED <<now, cacheVars, guardVars, ticks, tasks, estimate>>

\* if current_time - last_balance_update > BALANCE_REFRESH_INTERVAL:
\*     await refresh_balances(); last_balance_update = current_time
PeriodicBalances ==
    /\ loop.pc = "running"
    /\ refreshed.n < 2 + MaxRefreshCalls
    /\ now - loop.last_balance_update > BALANCE_REFRESH_INTERVAL
    /\ refresh_balances(FALSE)
    /\ loop' = [loop EXCEPT !.last_balance_update = now]
    /\ UNCHANGED <<now, cacheVars, guardVars, ticks, tasks, estimate>>

\* await refresh_balances(force=True): after a trade, or after the sleep of
\* the low-balance branch.
ForcedBalances ==
    /\ loop.pc = "running"
    /\ refreshed.n < 2 + MaxRefreshCalls
    /\ refresh_balances(TRUE)
    /\ UNCHANGED <<now, cacheVars, guardVars, loop, ticks, tasks, estimate>>

\* symbols, markets, triangles = await refresh_symbols()
PeriodicSymbols ==
    /\ loop.pc = "running"
    /\ refreshed.n < 2 + MaxRefreshCalls
    /\ refresh_symbols(FALSE)
    /\ UNCHANGED <<now, balanceVars, guardVars, loop, ticks, tasks, estimate>>

\* Time passes between two calls: the sleeps of main_loop.
RefreshWait ==
    /\ loop.pc = "running"
    /\ refreshed.n < 2 + MaxRefreshCalls
    /\ ~refreshed.waited
    /\ \E d \in RefreshSleeps : now' = now + d
    /\ refreshed' = [refreshed EXCEPT !.waited = TRUE]
    /\ UNCHANGED <<cacheVars, balanceVars, guardVars, loop, ticks, tasks, estimate>>

NextRefresh ==
    \/ StartupSymbols
    \/ StartupBalances
    \/ PeriodicBalances
    \/ ForcedBalances
    \/ PeriodicSymbols
    \/ RefreshWait

SpecRefresh == InitRefresh /\ [][NextRefresh]_vars

\* In this step refresh_symbols, or refresh_balances, was called and returned.
SymbolsCalled == refreshed'.symbols.k = refreshed.symbols.k + 1
BalancesCalled == refreshed'.balances.k = refreshed.balances.k + 1

\* C22 as stated: a refresh whose exchange read fails returns the cached
\* values and leaves them and the last-refresh timestamp unchanged, and the
\* call after a failed one attempts the refresh again.
C22_FailedRefreshRetried ==
    [][/\ (SymbolsCalled /\ refreshed'.symbols.raised)
            => /\ cacheVars' = cacheVars
               /\ refreshed'.symbols.ret = <<symbols_cache, markets_cache, triangles_cache>>
       /\ (BalancesCalled /\ refreshed'.balances.raised)
            => /\ balanceVars' = balanceVars
               /\ refreshed'.balances.ret = current_balances
       /\ (SymbolsCalled /\ refreshed.symbols.raised) => refreshed'.symbols.attempted
       /\ (BalancesCalled /\ refreshed.balances.raised) => refreshed'.balances.attempted]_vars

\* C22: a refresh whose exchange read fails returns the cached values and
\* leaves them and the last-refresh timestamp unchanged; the call after a
\* failed one attempts the refresh again, unless the failed call was forced
\* and the call after it is not.
C22_FailedRefreshKeepsCache ==
    [][/\ (SymbolsCalled /\ refreshed'.symbols.raised)
            => /\ cacheVars' = cacheVars
               /\ refreshed'.symbols.ret = <<symbols_cache, markets_cache, triangles_cache>>
       /\ (BalancesCalled /\ refreshed'.balances.raised)
            => /\ balanceVars' = balanceVars
               /\ refreshed'.balances.ret = current_balances
       /\ (SymbolsCalled /\ refreshed.symbols.raised) => refreshed'.symbols.attempted
       /\ (BalancesCalled /\ refreshed.balances.raised
              /\ (refreshed'.balances.force \/ ~refreshed.balances.force))
            => refreshed'.balances.attempted]_vars

\* A periodic refresh of the catalog failed with a catalog cached, and a
\* refresh of the balances was attempted again after a failed one.
C22_Witness ==
    /\ refreshed.pc = "calls"
    /\ refreshed.symbols.raised /\ ~refreshed.symbols.force
    /\ symbols_cache # <<>>
    /\ refreshed.balances.retry /\ refreshed.balances.attempted
    /\ last_balance_refresh > 0

\* ------------------------------------------------------ the scheduler goes on

\* The event loop runs every coroutine that is ready, and every call to the
\* exchange and every sleep returns: a step that can be taken is taken.
SpecLive == Spec /\ WF_vars(Next)

\* C23: with scanning enabled and no cancellation, an iteration in which the
\* triangles were evaluated is followed by another one in which they are,
\* unless the balance is found below the minimum: also after a successful
\* trade and with the hourly cleanup due.
C23_ScanningGoesOn ==
    \A n \in 1..(MaxTicks - 1) :
        (loop.pc = "gather" /\ ticks = n)
            ~> \/ loop.pc = "gather" /\ ticks > n
               \/ current_balances["USDT"] < MIN_BALANCE_USDT

\* ------------------------------------------------------- the two thresholds

\* C24: an estimate that get_avg_price returns with a price has filled at
\* least 80% of the target (it has filled 90%): the first-leg test of
\* check_triangle, `not price1 or vol1 < TARGET_VOLUME_USDT * 0.8`, rejects
\* exactly the estimates without a price.
C24_EightyPercentSubsumed ==
    estimate.pc = "returned" =>
        LET r == estimate.result
            seen == IF r.raised THEN NoOrderBook ELSE r
        IN  /\ Present(seen.price) => ~UnderFilled(seen.vol, estimate.target_usdt)
            /\ (Absent(seen.price) \/ UnderFilled(seen.vol, estimate.target_usdt))
                  <=> Absent(seen.price)

\* An estimate came back with a price and with less than the target filled.
C24_Witness ==
    /\ estimate.pc = "returned"
    /\ Present(estimate.result.price)
    /\ estimate.result.vol < estimate.target_usdt
    /\ estimate.result.vol * 10 >= estimate.target_usdt * 8

============================================================================
